---- MODULE Spec2Model ----
(***************************************************************************)
(* Model of sample-python-app/app.py: a Flask application with one route,  *)
(* "/", whose view function hello() formats the value of the HOSTNAME      *)
(* environment variable into a greeting, served by app.run on 0.0.0.0:8080.*)
(*                                                                         *)
(* Text is modelled as sequences of one-character strings so that prefix,  *)
(* suffix and length of a response body are computed, not assumed.         *)
(* Python values are records [type, val]: None is [type |-> "NoneType"],   *)
(* a str is [type |-> "str", val |-> <characters>].                        *)
(***************************************************************************)
EXTENDS Integers, Sequences, FiniteSets, TLC

\* ---------------------------------------------------------------- bounds
\* Number of connections the server may be handling at the same time.
NumClients == 2

Clients == 1..NumClients

\* ------------------------------------------------------- program constants
\* app.run(host="0.0.0.0", port=8080)
PORT == 8080

HOST == "0.0.0.0"

\* The key passed to os.getenv.
HOSTNAME == "HOSTNAME"

\* The literal part of the f-string returned by hello().
GreetingPrefix ==
   << "H", "e", "l", "l", "o", " ", "f", "r", "o", "m", " ", "O",
      "d", "i", "g", "o", "s", " ", "S", "a", "m", "p", "l", "e",
      " ", "A", "p", "p", "!", " ", "R", "u", "n", "n", "i", "n",
      "g", " ", "i", "n", " " >>

\* ------------------------------------------------------------ Python values
None == [type |-> "NoneType", val |-> << >>]

Str(s) == [type |-> "str", val |-> s]

\* Placeholder of a local variable that has not been assigned yet.
Unbound == [type |-> "unbound", val |-> << >>]

\* Values HOSTNAME takes in the modelled runs: empty, the text "None",
\* and an ordinary host name.
HostValues ==
   { << >>,
     << "N", "o", "n", "e" >>,
     << "w", "e", "b" >> }

\* os.environ restricted to the key the program reads: a mapping whose
\* domain is {} (HOSTNAME unset) or {HOSTNAME}.
Environs == [{} -> HostValues] \cup [{HOSTNAME} -> HostValues]

\* Requests the clients send. A path is the sequence of its segments:
\* "/" is << >>, "/static/app.js" is << "static", "app.js" >>.
Methods == { "GET", "HEAD", "OPTIONS", "POST" }

RootPath == << >>

Paths == { RootPath, << "health" >>, << "static", "app.js" >> }

VARIABLES
   startEnviron,  \* the environment the process was started with
   environ,       \* os.environ, the mapping os.getenv reads
   mainpc,        \* position of the module's top-level code
   url_map,       \* app.url_map: the rules registered on the application
   portOwner,     \* who holds port 8080: "free", "other" or "app"
   bound,         \* the (host, port) the server socket is bound to, or << >>
   req            \* per connection: the request being handled and its response

vars == << startEnviron, environ, mainpc, url_map, portOwner, bound, req >>

IdleReq ==
   [ pc |-> "idle", method |-> "GET", path |-> RootPath, endpoint |-> "",
     hostname |-> Unbound, status |-> 0, body |-> << >> ]

Init ==
   /\ startEnviron \in Environs
   /\ environ = startEnviron
   /\ mainpc = "start"
   /\ url_map = {}
   /\ portOwner \in { "free", "other" }
   /\ bound = << >>
   /\ req = [ c \in Clients |-> IdleReq ]

\* Variant: the value is looked up in the environment the process was
\* started with, as a module-level HOSTNAME = os.getenv(...) would.
getenv_cached(key) ==
   IF key \in DOMAIN startEnviron THEN Str(startEnviron[key]) ELSE None

\* ------------------------------------------------------ the view function
\* os.getenv(key): os.environ.get(key, None), a str when the key is present
\* and None when it is not.
getenv(key) ==
   IF key \in DOMAIN environ THEN Str(environ[key]) ELSE None

\* Variant: the !r conversion, which quotes a str.
format_value_repr(v) ==
   IF v.type = "NoneType" THEN << "N", "o", "n", "e" >>
   ELSE << "'" >> \o v.val \o << "'" >>

\* Variant: an absent value is inserted as the empty text, as with
\* os.getenv('HOSTNAME', '').
format_value_empty(v) ==
   IF v.type = "NoneType" THEN << >> ELSE v.val

\* The conversion an f-string replacement field applies, format(v, ""):
\* a str is inserted as it is, None is inserted as the text "None".
format_value(v) ==
   IF v.type = "NoneType" THEN << "N", "o", "n", "e" >> ELSE v.val

\* Variant: the greeting without its literal part.
hello_rv_no_prefix(v) ==
   [ exc |-> "", value |-> format_value(v) ]

\* Variant: "..." + os.getenv('HOSTNAME'), which raises TypeError on None.
hello_rv_concat(v) ==
   IF v.type = "NoneType"
   THEN [ exc |-> "TypeError", value |-> << >> ]
   ELSE [ exc |-> "", value |-> GreetingPrefix \o v.val ]

\* The outcome of hello()'s return expression for the looked-up value v:
\* exc names the exception leaving the view function, "" when it returns.
hello_rv(v) ==
   [ exc |-> "", value |-> GreetingPrefix \o format_value(v) ]

\* Variant: the route registered with methods=["GET", "POST"].
route_methods_post == { "GET", "HEAD", "OPTIONS", "POST" }

\* ------------------------------------------------------------- the router
\* The methods of a rule registered by @app.route("/") without a methods
\* argument: GET, with HEAD added because GET is there, and OPTIONS added
\* by the application's automatic OPTIONS handling.
route_methods == { "GET", "HEAD", "OPTIONS" }

\* The rule that @app.route("/") applied to hello adds to app.url_map.
hello_rule == [ rule |-> RootPath, methods |-> route_methods, endpoint |-> "hello" ]

\* The segment of a rule that stands for the <path:filename> converter: it
\* matches one or more segments.
PathConverter == "<path:filename>"

\* The rule Flask(__name__) adds for the application's static folder,
\* "/static/<path:filename>", with the default methods.
static_rule ==
   [ rule |-> << "static", PathConverter >>,
     methods |-> { "GET", "HEAD", "OPTIONS" }, endpoint |-> "static" ]

\* The files of the static folder: the application directory has none.
StaticFiles == {}

\* Variant: a rule without converter matches every path it is a prefix of,
\* so that "/" catches all paths.
rule_matches_prefix(rule, path) ==
   IF rule # << >> /\ rule[Len(rule)] = PathConverter
   THEN /\ Len(path) >= Len(rule)
        /\ SubSeq(path, 1, Len(rule) - 1) = SubSeq(rule, 1, Len(rule) - 1)
   ELSE /\ Len(path) >= Len(rule)
        /\ SubSeq(path, 1, Len(rule)) = rule

\* Whether a rule's pattern matches a request path.
rule_matches(rule, path) ==
   IF rule # << >> /\ rule[Len(rule)] = PathConverter
   THEN /\ Len(path) >= Len(rule)
        /\ SubSeq(path, 1, Len(rule) - 1) = SubSeq(rule, 1, Len(rule) - 1)
   ELSE path = rule

\* The outcome of the static view: the file, or NotFound when there is none.
send_static_file_rv(path) ==
   IF SubSeq(path, 2, Len(path)) \in StaticFiles
   THEN [ exc |-> "", value |-> << >> ]
   ELSE [ exc |-> "NotFound", value |-> << >> ]

\* Bodies of the framework's own responses.
NotFoundBody == << "N", "o", "t", " ", "F", "o", "u", "n", "d" >>

MethodNotAllowedBody == << "M", "e", "t", "h", "o", "d", " ", "N", "o", "t", " ", "A", "l", "l", "o", "w", "e", "d" >>

InternalServerErrorBody == << "I", "n", "t", "e", "r", "n", "a", "l", " ", "S", "e", "r", "v", "e", "r", " ", "E", "r", "r", "o", "r" >>

\* Matching of a request against url_map: the endpoint to call, or the
\* routing error the framework answers with.
match(rules, method, path) ==
   LET byPath   == { r \in rules : rule_matches(r.rule, path) }
       byMethod == { r \in byPath : method \in r.methods }
   IN  IF byPath = {} THEN [ kind |-> "NotFound", endpoint |-> "" ]
       ELSE IF byMethod = {} THEN [ kind |-> "MethodNotAllowed", endpoint |-> "" ]
       ELSE IF method = "OPTIONS" THEN [ kind |-> "AutomaticOptions", endpoint |-> "" ]
       ELSE [ kind |-> "View", endpoint |-> (CHOOSE r \in byMethod : TRUE).endpoint ]

\* The response the framework builds from what the view function returned
\* or raised; a HEAD response carries no body.
make_response(method, rv) ==
   LET resp == IF rv.exc = "" THEN [ status |-> 200, body |-> rv.value ]
               ELSE IF rv.exc = "NotFound" THEN [ status |-> 404, body |-> NotFoundBody ]
               ELSE [ status |-> 500, body |-> InternalServerErrorBody ]
   IN  IF method = "HEAD" THEN [ resp EXCEPT !.body = << >> ] ELSE resp

\* The response to a request that routing settles without calling a view.
routing_response(kind, method) ==
   IF kind = "NotFound"
   THEN [ status |-> 404, body |-> IF method = "HEAD" THEN << >> ELSE NotFoundBody ]
   ELSE IF kind = "MethodNotAllowed"
   THEN [ status |-> 405, body |-> IF method = "HEAD" THEN << >> ELSE MethodNotAllowedBody ]
   ELSE [ status |-> 200, body |-> << >> ]

\* ------------------------------------------------------- top-level code
\* app = Flask(__name__): the new application's url_map holds the rule of
\* its static folder and no rule of the program's own.
CreateApp ==
   /\ mainpc = "start"
   /\ mainpc' = "created"
   /\ url_map' = { static_rule }
   /\ UNCHANGED << startEnviron, environ, portOwner, bound, req >>

\* @app.route("/") def hello(): ...
RegisterRoute ==
   /\ mainpc = "created"
   /\ mainpc' = "registered"
   /\ url_map' = url_map \cup { hello_rule }
   /\ UNCHANGED << startEnviron, environ, portOwner, bound, req >>

\* Variant: when 8080 is taken, fall back to the next port.
Run_fallback ==
   /\ mainpc = "registered"
   /\ mainpc' = "listening"
   /\ IF portOwner = "free"
      THEN portOwner' = "app" /\ bound' = << HOST, PORT >>
      ELSE portOwner' = portOwner /\ bound' = << HOST, PORT + 1 >>
   /\ UNCHANGED << startEnviron, environ, url_map, req >>

\* app.run(host="0.0.0.0", port=8080): bind the server socket; when the
\* port is held by another process the bind raises and the process ends.
Run ==
   /\ mainpc = "registered"
   /\ IF portOwner = "free"
      THEN /\ mainpc' = "listening"
           /\ portOwner' = "app"
           /\ bound' = << HOST, PORT >>
      ELSE /\ mainpc' = "failed"
           /\ UNCHANGED << portOwner, bound >>
   /\ UNCHANGED << startEnviron, environ, url_map, req >>

\* ---------------------------------------------------- request handling
\* A client's request arrives on a connection; only a listening server
\* accepts connections.
Receive(c, method, path) ==
   /\ mainpc = "listening"
   /\ req[c].pc = "idle"
   /\ req' = [ req EXCEPT ![c] = [ IdleReq EXCEPT !.pc = "received",
                                    !.method = method, !.path = path ] ]
   /\ UNCHANGED << startEnviron, environ, mainpc, url_map, portOwner, bound >>

\* Routing of the request: call the view function of the matching rule, or
\* answer with the routing error or the automatic OPTIONS response.
Dispatch(c) ==
   /\ req[c].pc = "received"
   /\ LET m == match(url_map, req[c].method, req[c].path)
      IN  IF m.kind = "View"
          THEN req' = [ req EXCEPT ![c].pc = "view", ![c].endpoint = m.endpoint ]
          ELSE LET resp == routing_response(m.kind, req[c].method)
               IN  req' = [ req EXCEPT ![c].pc = "done",
                                       ![c].status = resp.status,
                                       ![c].body = resp.body ]
   /\ UNCHANGED << startEnviron, environ, mainpc, url_map, portOwner, bound >>

\* Variant: os.environ.setdefault('HOSTNAME', 'web') instead of os.getenv,
\* which writes the default into the environment when the key is absent.
hello_getenv_setdefault(c) ==
   /\ req[c].pc = "view"
   /\ req[c].endpoint = "hello"
   /\ environ' = IF HOSTNAME \in DOMAIN environ THEN environ
                 ELSE [ k \in {HOSTNAME} |-> << "w", "e", "b" >> ]
   /\ req' = [ req EXCEPT ![c].pc = "format",
                          ![c].hostname = Str(environ'[HOSTNAME]) ]
   /\ UNCHANGED << startEnviron, mainpc, url_map, portOwner, bound >>

\* hello(), first half: evaluate os.getenv('HOSTNAME').
hello_getenv(c) ==
   /\ req[c].pc = "view"
   /\ req[c].endpoint = "hello"
   /\ req' = [ req EXCEPT ![c].pc = "format", ![c].hostname = getenv(HOSTNAME) ]
   /\ UNCHANGED << startEnviron, environ, mainpc, url_map, portOwner, bound >>

\* Variant: the response is kept in one module-level slot (connection 1's)
\* instead of being returned to the caller.
hello_return_shared(c) ==
   /\ req[c].pc = "format"
   /\ LET resp == make_response(req[c].method, hello_rv(req[c].hostname))
          first == CHOOSE d \in Clients : \A e \in Clients : d <= e
      IN  req' = [ d \in Clients |->
                     IF d = first /\ (d = c \/ req[d].pc = "done")
                     THEN [ req[d] EXCEPT !.pc = "done",
                                          !.status = resp.status,
                                          !.body = resp.body ]
                     ELSE IF d = c THEN [ req[d] EXCEPT !.pc = "done" ]
                     ELSE req[d] ]
   /\ UNCHANGED << startEnviron, environ, mainpc, url_map, portOwner, bound >>

\* hello(), second half: build the f-string and return it; the framework
\* turns the return value into the response.
hello_return(c) ==
   /\ req[c].pc = "format"
   /\ LET resp == make_response(req[c].method, hello_rv(req[c].hostname))
      IN  req' = [ req EXCEPT ![c].pc = "done",
                              ![c].status = resp.status,
                              ![c].body = resp.body ]
   /\ UNCHANGED << startEnviron, environ, mainpc, url_map, portOwner, bound >>

\* The static view, called for a request the static rule matched.
send_static_file(c) ==
   /\ req[c].pc = "view"
   /\ req[c].endpoint = "static"
   /\ LET resp == make_response(req[c].method, send_static_file_rv(req[c].path))
      IN  req' = [ req EXCEPT ![c].pc = "done",
                              ![c].status = resp.status,
                              ![c].body = resp.body ]
   /\ UNCHANGED << startEnviron, environ, mainpc, url_map, portOwner, bound >>

\* The client has read the response; the connection can carry a new request.
Close(c) ==
   /\ req[c].pc = "done"
   /\ req' = [ req EXCEPT ![c] = IdleReq ]
   /\ UNCHANGED << startEnviron, environ, mainpc, url_map, portOwner, bound >>

\* ---------------------------------------------------------- environment
\* os.environ['HOSTNAME'] = v, by code running in the same process.
SetHostname(v) ==
   /\ environ' = [ k \in {HOSTNAME} |-> v ]
   /\ environ' # environ
   /\ UNCHANGED << startEnviron, mainpc, url_map, portOwner, bound, req >>

\* del os.environ['HOSTNAME']
UnsetHostname ==
   /\ HOSTNAME \in DOMAIN environ
   /\ environ' = [ k \in {} |-> << >> ]
   /\ UNCHANGED << startEnviron, mainpc, url_map, portOwner, bound, req >>

\* Another process binds port 8080.
OtherBind ==
   /\ portOwner = "free"
   /\ portOwner' = "other"
   /\ UNCHANGED << startEnviron, environ, mainpc, url_map, bound, req >>

\* The other process releases port 8080.
OtherRelease ==
   /\ portOwner = "other"
   /\ portOwner' = "free"
   /\ UNCHANGED << startEnviron, environ, mainpc, url_map, bound, req >>

Receives == \E c \in Clients, method \in Methods, path \in Paths : Receive(c, method, path)

Dispatches == \E c \in Clients : Dispatch(c)

Getenvs == \E c \in Clients : hello_getenv(c)

Returns == \E c \in Clients : hello_return(c)

StaticViews == \E c \in Clients : send_static_file(c)

Closes == \E c \in Clients : Close(c)

SetHostnames == \E v \in HostValues : SetHostname(v)

Next ==
   \/ CreateApp
   \/ RegisterRoute
   \/ Run
   \/ Receives
   \/ Dispatches
   \/ Getenvs
   \/ Returns
   \/ StaticViews
   \/ Closes
   \/ SetHostnames
   \/ UnsetHostname
   \/ OtherBind
   \/ OtherRelease

Spec == Init /\ [][Next]_vars

\* The same program with the process environment held fixed.
NextFixedEnv ==
   \/ CreateApp
   \/ RegisterRoute
   \/ Run
   \/ Receives
   \/ Dispatches
   \/ Getenvs
   \/ Returns
   \/ StaticViews
   \/ Closes
   \/ OtherBind
   \/ OtherRelease

SpecFixedEnv == Init /\ [][NextFixedEnv]_vars

\* ===================================================== checked properties
StartsWith(s, p) ==
   /\ Len(s) >= Len(p)
   /\ SubSeq(s, 1, Len(p)) = p

EndsWith(s, p) ==
   /\ Len(s) >= Len(p)
   /\ SubSeq(s, Len(s) - Len(p) + 1, Len(s)) = p

NoneText == << "N", "o", "n", "e" >>

Done(c) == req[c].pc = "done"

RootGet(c) == req[c].method = "GET" /\ req[c].path = RootPath

\* What a request receives when it is the only one the server handles,
\* with the environment as it is now.
ServeAlone(method, path) ==
   LET m == match({ static_rule, hello_rule }, method, path)
   IN  IF m.kind # "View" THEN routing_response(m.kind, method)
       ELSE IF m.endpoint = "hello"
       THEN make_response(method, hello_rv(getenv(HOSTNAME)))
       ELSE make_response(method, send_static_file_rv(path))

\* C1: every answered GET request to "/" has status 200 and a body that
\* starts with "Hello from Odigos Sample App! Running in ", whether HOSTNAME
\* was unset, empty or any text when it was read.
C1_GreetingPrefix ==
   \A c \in Clients :
      (Done(c) /\ RootGet(c)) =>
         /\ req[c].status = 200
         /\ StartsWith(req[c].body, GreetingPrefix)

C1_Witness ==
   \E c \in Clients :
      /\ Done(c) /\ RootGet(c)
      /\ req[c].hostname = Str(<< >>)
      /\ HOSTNAME \in DOMAIN environ
      /\ req[c].status = 200

\* C2: when HOSTNAME had the value V when the request to "/" read it, the
\* body ends with V and is exactly the greeting prefix followed by V.
C2_BodyIsPrefixThenValue ==
   \A c \in Clients :
      (Done(c) /\ RootGet(c) /\ req[c].hostname.type = "str") =>
         /\ EndsWith(req[c].body, req[c].hostname.val)
         /\ Len(req[c].body) = Len(GreetingPrefix) + Len(req[c].hostname.val)
         /\ req[c].body = GreetingPrefix \o req[c].hostname.val

C2_Witness ==
   \E c \in Clients :
      /\ Done(c) /\ RootGet(c)
      /\ req[c].hostname = Str(<< "w", "e", "b" >>)
      /\ EndsWith(req[c].body, << "w", "e", "b" >>)

\* C3: when HOSTNAME was unset when the request to "/" read it, the handler
\* does not fail: the status is 200 and the body is the greeting prefix
\* followed by the text "None".
C3_UnsetGivesNone ==
   \A c \in Clients :
      (Done(c) /\ RootGet(c) /\ req[c].hostname = None) =>
         /\ req[c].status = 200
         /\ req[c].body = GreetingPrefix \o NoneText

C3_Witness ==
   \E c \in Clients :
      /\ Done(c) /\ RootGet(c)
      /\ req[c].hostname = None
      /\ HOSTNAME \notin DOMAIN environ
      /\ EndsWith(req[c].body, NoneText)

\* C4 as stated: every answered request to a path other than "/" has
\* status 404, a body that is not the greeting, and hello was not called.
C4_Original ==
   \A c \in Clients :
      (Done(c) /\ req[c].path # RootPath) =>
         /\ req[c].status = 404
         /\ req[c].endpoint # "hello"
         /\ ~ StartsWith(req[c].body, GreetingPrefix)

UnderStatic(path) == Len(path) >= 2 /\ path[1] = "static"

\* C4: a request to a path other than "/" never has hello called for it and
\* never gets the greeting. It is answered with 404, except under the
\* application's built-in /static/<path> rule, where OPTIONS gets the
\* automatic reply (200, empty body) and a method other than GET, HEAD and
\* OPTIONS gets 405; GET and HEAD there get 404 as there is no static file.
C4_OtherPathNoGreeting ==
   \A c \in Clients :
      (req[c].pc # "idle" /\ req[c].path # RootPath) =>
         /\ req[c].endpoint # "hello"
         /\ req[c].pc # "format"
         /\ Done(c) =>
               /\ ~ StartsWith(req[c].body, GreetingPrefix)
               /\ IF ~ UnderStatic(req[c].path) \/ req[c].method \in { "GET", "HEAD" }
                  THEN req[c].status = 404
                  ELSE IF req[c].method = "OPTIONS"
                  THEN req[c].status = 200 /\ req[c].body = << >>
                  ELSE req[c].status = 405

C4_Witness ==
   \E c, d \in Clients :
      /\ Done(c)
      /\ req[c].path = << "health" >> /\ req[c].method = "GET"
      /\ req[c].status = 404
      /\ Done(d)
      /\ req[d].path = << "static", "app.js" >> /\ req[d].method = "POST"
      /\ req[d].status = 405

\* C5: the host identifier is read when the request is handled: the step of
\* hello that looks HOSTNAME up obtains the value os.environ holds at that
\* step, and the response is built from that value, whatever the variable
\* was at process start or at an earlier request.
C5_ReadAtRequestTime ==
   [][ \A c \in Clients :
          /\ (req[c].pc = "view" /\ req[c].endpoint = "hello" /\ req'[c].pc # "view") =>
                /\ req'[c].pc = "format"
                /\ req'[c].hostname =
                      IF HOSTNAME \in DOMAIN environ THEN Str(environ[HOSTNAME]) ELSE None
          /\ (req[c].pc = "format" /\ req'[c].pc # "format") =>
                /\ req'[c].pc = "done"
                /\ req'[c].hostname = req[c].hostname
                /\ req[c].method = "GET" =>
                      req'[c].body = GreetingPrefix \o
                         (IF req[c].hostname.type = "str" THEN req[c].hostname.val ELSE NoneText)
     ]_vars

C5_Witness ==
   \E c, d \in Clients :
      /\ Done(c) /\ RootGet(c) /\ Done(d) /\ RootGet(d)
      /\ req[c].body # req[d].body
      /\ req[c].hostname = getenv(HOSTNAME)
      /\ req[c].hostname # getenv_cached(HOSTNAME)
      /\ req[d].hostname # getenv_cached(HOSTNAME)

\* C6: with the environment held fixed, under every interleaving of the
\* requests being handled, each answered request has exactly the status and
\* body it would get if it were served alone, and a request that is still
\* being handled has no response yet.
C6_NoInterference ==
   \A c \in Clients :
      /\ Done(c) =>
            /\ req[c].status = ServeAlone(req[c].method, req[c].path).status
            /\ req[c].body = ServeAlone(req[c].method, req[c].path).body
      /\ req[c].pc \in { "received", "view", "format" } =>
            /\ req[c].status = 0
            /\ req[c].body = << >>

C6_Witness ==
   \E c, d \in Clients :
      /\ c # d
      /\ Done(c) /\ RootGet(c) /\ req[c].status = 200
      /\ req[d].pc = "format" /\ RootGet(d)

\* C7: app.run binds 0.0.0.0:8080 and nothing else. With the port free the
\* server becomes listening on it; with the port taken startup fails, the
\* process stays failed even if the port is released later, it never binds
\* another port, and no request is ever accepted by a server that is not
\* listening.
C7_StartupOnFixedPort ==
   [][ /\ (mainpc = "registered" /\ mainpc' # "registered") =>
             IF portOwner = "free"
             THEN /\ mainpc' = "listening"
                  /\ portOwner' = "app"
                  /\ bound' = << "0.0.0.0", 8080 >>
             ELSE /\ mainpc' = "failed"
                  /\ bound' = << >>
       /\ mainpc = "failed" => (mainpc' = "failed" /\ bound' = << >>)
       /\ mainpc = "listening" => (mainpc' = "listening" /\ bound' = bound)
       /\ mainpc' # "listening" => \A c \in Clients : req'[c] = IdleReq
     ]_vars

C7_Witness ==
   /\ mainpc = "failed"
   /\ portOwner = "free"
   /\ bound = << >>
   /\ \A c \in Clients : req[c].pc = "idle"

\* C8: a step of request handling changes nothing but the state of the
\* request it belongs to: os.environ, the start environment, the route
\* table, the server state and every other request stay as they were.
C8_HandlingHasNoSideEffect ==
   [][ \A c \in Clients :
          (req[c].pc \in { "received", "view", "format" } /\ req'[c] # req[c]) =>
             /\ environ' = environ
             /\ startEnviron' = startEnviron
             /\ url_map' = url_map
             /\ mainpc' = mainpc
             /\ portOwner' = portOwner
             /\ bound' = bound
             /\ \A d \in Clients \ { c } : req'[d] = req[d]
     ]_vars

C8_Witness ==
   /\ \A c \in Clients : Done(c) /\ RootGet(c) /\ req[c].status = 200
   /\ environ = startEnviron
   /\ HOSTNAME \notin DOMAIN environ

\* C9: HOSTNAME set to the empty text and HOSTNAME unset are told apart: the
\* empty text gives exactly the greeting prefix, unset gives the prefix
\* followed by "None"; and HOSTNAME set to the text "None" gives the same
\* body as unset.
C9_EmptyVersusUnset ==
   \A c \in Clients :
      (Done(c) /\ RootGet(c)) =>
         /\ req[c].hostname = Str(<< >>) => req[c].body = GreetingPrefix
         /\ req[c].hostname = None =>
               /\ req[c].body = GreetingPrefix \o NoneText
               /\ req[c].body # GreetingPrefix
         /\ \A d \in Clients :
               ( /\ Done(d) /\ RootGet(d)
                 /\ req[c].hostname = None
                 /\ req[d].hostname = Str(NoneText) ) => req[d].body = req[c].body

C9_Witness ==
   \E c, d \in Clients :
      /\ Done(c) /\ RootGet(c) /\ Done(d) /\ RootGet(d)
      /\ req[c].hostname = None
      /\ req[d].hostname = Str(NoneText)
      /\ req[c].body = req[d].body

\* C10: the route "/" is registered with GET, HEAD and OPTIONS only; a
\* request to "/" with another method never has hello called for it and is
\* answered with status 405 and a body that is not the greeting.
C10_OtherMethodNotAllowed ==
   /\ \A r \in url_map : r.endpoint = "hello" =>
         r.rule = RootPath /\ r.methods = { "GET", "HEAD", "OPTIONS" }
   /\ mainpc \in { "registered", "listening", "failed" } =>
         \E r \in url_map : r.endpoint = "hello"
   /\ \A c \in Clients :
         ( /\ req[c].pc # "idle"
           /\ req[c].path = RootPath
           /\ req[c].method \notin { "GET", "HEAD", "OPTIONS" } ) =>
            /\ req[c].endpoint = ""
            /\ req[c].pc \in { "received", "done" }
            /\ Done(c) => /\ req[c].status = 405
                          /\ ~ StartsWith(req[c].body, GreetingPrefix)

C10_Witness ==
   \E c \in Clients :
      /\ Done(c)
      /\ req[c].path = RootPath /\ req[c].method = "POST"
      /\ req[c].status = 405
      /\ req[c].endpoint = ""

====
